---------------------------- MODULE Spec2Model ----------------------------
(***************************************************************************)
(* A model of Code/skeletonHarmony.py (When-in-Rome): the text             *)
(* canonicaliser fixTextRn, the key / tonicization pass of                 *)
(* RnAnalysis.chfyChordAndLabel, RnAnalysis.getRepeats and the line        *)
(* serialiser RnAnalysis.prepList.                                         *)
(*                                                                         *)
(* A Python str is a sequence of one-character strings, so that replace,   *)
(* slicing, concatenation and str(int) are computed and not assumed.       *)
(***************************************************************************)
EXTENDS Integers, Sequences, FiniteSets, TLC

VARIABLES
    \* ---- fixTextRn called on a text, then on its own result
    textRn,            \* the argument of the latest call (the raw text at first)
    fixed,             \* the value the latest call returned
    fixCalls,          \* how many times fixTextRn has been applied
    \* ---- RnAnalysis.chfyChordAndLabel
    chNotes,           \* the chords of the chordified reduction, in order
    lyrics,            \* the annotated notes of the analysis part: [measure, beat, lyric]
    adaptText,         \* self.adaptText
    tonicizationsRemainInEffect,
    annotationsAndLocations,   \* self.annotationsAndLocations ("None" before it is set)
    deducedAnalysis,   \* self.deducedAnalysis ("None" before it is set)
    chIndex,           \* how many chords the loop has taken
    currentIndex,      \* the annotation cursor
    currentKey,
    currentTonicization,       \* "None" or the token
    stringInQuestion,  \* the last consumed annotation text ("unbound" before any)
    startKey,          \* currentKey as the latest iteration found it
    consumedNow,       \* did the latest iteration consume an annotation
    pc,                \* "init", "loop", "done", "ValueError"
    chfyScore,         \* self.chfyScore: "unset" while the object has no such attribute
    writeOutcome,      \* writeScore: "no" call yet, "written", "AttributeError"
    \* ---- RnAnalysis.getRepeats / prepList
    firstMeasureNumber,
    lastMeasureNumber,
    timeSigMeasureDict,
    simMGs,            \* what RepeatFinder.getSimilarMeasureGroups returns
    measureRangeEqualities,    \* "None" before getRepeats has set it
    combinedList,      \* "None" before prepList has set it
    lastOp,            \* the method that ran last on the template side ("none" yet)
    analysisDict       \* self.analysisDict (not an attribute before makeMeasureStrings)

fixVars  == <<textRn, fixed, fixCalls>>
chfyVars == <<chNotes, lyrics, adaptText, tonicizationsRemainInEffect,
              annotationsAndLocations, deducedAnalysis, chIndex, currentIndex,
              currentKey, currentTonicization, stringInQuestion, startKey,
              consumedNow, pc, chfyScore, writeOutcome>>
prepVars == <<firstMeasureNumber, lastMeasureNumber, timeSigMeasureDict, simMGs,
              measureRangeEqualities, combinedList, lastOp, analysisDict>>
vars == <<fixVars, chfyVars, prepVars>>

-----------------------------------------------------------------------------
(* Bounds of the model *)

MaxLen == 3          \* longest raw text given to fixTextRn
MaxChords == 2       \* most chords in the reduction
MaxAnnots == 2       \* most annotated notes
MaxMeasure == 2      \* last measure number of the chordified score
MaxLast == 3         \* largest lastMeasureNumber on the template side
MaxGroups == 2       \* most groups in the similar-measure-group list

-----------------------------------------------------------------------------
(* Python str and list helpers *)

Range(s) == {s[i] : i \in 1..Len(s)}

SeqsUpTo(S, n) == UNION {[1..k -> S] : k \in 0..n}

\* s.startswith(k) at offset 0
StartsWith(s, k) == Len(s) >= Len(k) /\ SubSeq(s, 1, Len(k)) = k

\* k in s, for a str k
Contains(s, k) == \E i \in 1..(Len(s) - Len(k) + 1) : SubSeq(s, i, i + Len(k) - 1) = k

\* s.replace(k, v): every non-overlapping occurrence, left to right
RECURSIVE StrReplace(_, _, _)
StrReplace(s, k, v) ==
    IF s = <<>> THEN <<>>
    ELSE IF StartsWith(s, k)
         THEN v \o StrReplace(SubSeq(s, Len(k) + 1, Len(s)), k, v)
         ELSE <<Head(s)>> \o StrReplace(Tail(s), k, v)

\* c.lower() on the characters of the model
Lower(c) ==
    CASE c = "A" -> "a" [] c = "B" -> "b" [] c = "C" -> "c" [] c = "D" -> "d"
      [] c = "E" -> "e" [] c = "F" -> "f" [] c = "G" -> "g" [] c = "I" -> "i"
      [] c = "V" -> "v" [] c = "N" -> "n" [] c = "O" -> "o" [] c = "Ø" -> "ø"
      [] c = "K" -> "k" [] c = "Y" -> "y" [] c = "X" -> "x"
      [] OTHER -> c

DigitChar(d) == CASE d = 0 -> "0" [] d = 1 -> "1" [] d = 2 -> "2" [] d = 3 -> "3"
                  [] d = 4 -> "4" [] d = 5 -> "5" [] d = 6 -> "6" [] d = 7 -> "7"
                  [] d = 8 -> "8" [] d = 9 -> "9"

\* str(n) for a natural number n
RECURSIVE Str(_)
Str(n) == IF n < 10 THEN <<DigitChar(n)>> ELSE Str(n \div 10) \o <<DigitChar(n % 10)>>

-----------------------------------------------------------------------------
(* fixTextRn *)

\* swapDict, in the insertion order that swapDict.keys() iterates
swapDict == << <<(<<"/", "o">>), (<<"ø">>)>>,
               <<(<<"°">>),      (<<"o">>)>>,
               <<(<<"(">>),      (<<"[">>)>>,
               <<(<<")">>),      (<<"]">>)>> >>

legalCharacters == {"#", "b", "-",
                    "+", "o", "ø",
                    ":", "[", "]", "/",
                    "a", "c", "d", "e", "f", "g",
                    "i", "v",
                    "n",
                    "1", "2", "3", "4", "5", "6", "7", "8", "9"}

\* for k in swapDict.keys(): if k in textRn: textRn = textRn.replace(k, swapDict[k])
RECURSIVE ApplySwaps(_, _)
ApplySwaps(s, i) ==
    IF i > Len(swapDict) THEN s
    ELSE ApplySwaps(IF Contains(s, swapDict[i][1])
                    THEN StrReplace(s, swapDict[i][1], swapDict[i][2])
                    ELSE s, i + 1)

\* for char in textRn: if char.lower() not in legalCharacters:
\*     textRn = textRn.replace(char, '')
\* (the loop runs over the characters of the text as it was when the loop began)
RECURSIVE RemoveIllegal(_, _, _)
RemoveIllegal(orig, i, s) ==
    IF i > Len(orig) THEN s
    ELSE RemoveIllegal(orig, i + 1,
                       IF Lower(orig[i]) \notin legalCharacters
                       THEN StrReplace(s, <<orig[i]>>, <<>>)
                       ELSE s)

\* A bug: the removal loop is left out
StripNothing(s) == s

StripIllegal(s) == RemoveIllegal(s, 1, s)

\* textRn.replace(':', ': ')
SpaceAfterColon(s) == StrReplace(s, <<":">>, <<":", " ">>)

fixTextRn(s) == SpaceAfterColon(StripIllegal(ApplySwaps(s, 1)))

\* The characters raw texts are made of: the swap sources, a colon, a space, legal
\* letters of either case, digits and a character that is not legal
RawChars == {"/", "o", "°", "(", ")", ":", " ", "I", "0", "6", "x"}

RawTexts == SeqsUpTo(RawChars, MaxLen)

IdleFix == textRn = <<>> /\ fixed = <<>> /\ fixCalls = 0

\* fixTextRn(raw)
FixRaw ==
    /\ fixCalls = 0
    /\ fixed' = fixTextRn(textRn)
    /\ fixCalls' = 1
    /\ UNCHANGED <<textRn, chfyVars, prepVars>>

\* fixTextRn(fixTextRn(raw)): the earlier result is the argument
FixAgain ==
    /\ fixCalls = 1
    /\ textRn' = fixed
    /\ fixed' = fixTextRn(fixed)
    /\ fixCalls' = 2
    /\ UNCHANGED <<chfyVars, prepVars>>

-----------------------------------------------------------------------------
(* The music21 collaborators of chfyChordAndLabel. key.Key, roman.RomanNumeral *)
(* and roman.romanNumeralFromChord are not code of this repository: they are   *)
(* total functions here, on diatonic letters without accidentals.              *)

None == <<>>      \* None and '' are both falsy, and the code tests only truthiness

LetterIdx(c) ==
    CASE Lower(c) = "c" -> 0 [] Lower(c) = "d" -> 1 [] Lower(c) = "e" -> 2
      [] Lower(c) = "f" -> 3 [] Lower(c) = "g" -> 4 [] Lower(c) = "a" -> 5
      [] OTHER -> 6

UpperLetter(i) == <<"C", "D", "E", "F", "G", "A", "B">>[i + 1]
LowerLetter(i) == <<"c", "d", "e", "f", "g", "a", "b">>[i + 1]

\* key.Key(text).tonic, read from the leading letter of the text
KeyTonic(k) == LetterIdx(k[1])

UpperNumeral(d) == << <<"I">>, <<"I", "I">>, <<"I", "I", "I">>, <<"I", "V">>, <<"V">>,
                      <<"V", "I">>, <<"V", "I", "I">> >>[d]
LowerNumeral(d) == << <<"i">>, <<"i", "i">>, <<"i", "i", "i">>, <<"i", "v">>, <<"v">>,
                      <<"v", "i">>, <<"v", "i", "i">> >>[d]

\* The pitch content of a chord: the root letter and the quality of a triad
ChordRoot(pitches) == CASE pitches = "Gmaj" -> 4 [] pitches = "Dmaj" -> 1 [] OTHER -> 0
ChordIsMajor(pitches) == pitches \in {"Gmaj", "Dmaj"}

\* str(roman.romanNumeralFromChord(ch, key.Key(k)).figure)
romanNumeralFromChord(ch, k) ==
    LET d == ((ChordRoot(ch.pitches) - KeyTonic(k) + 7) % 7) + 1
    IN  IF ChordIsMajor(ch.pitches) THEN UpperNumeral(d) ELSE LowerNumeral(d)

\* roman.RomanNumeral(local_key, global_key): the degree is read from the i and v
\* letters of the figure, the quality from their case and an 'o'
NumeralLetters(t) == SelectSeq(t, LAMBDA c : Lower(c) \in {"i", "v"})

RomanDegree(t) ==
    LET n == [i \in 1..Len(NumeralLetters(t)) |-> Lower(NumeralLetters(t)[i])]
    IN  CASE n = <<"i", "i">> -> 2 [] n = <<"i", "i", "i">> -> 3 [] n = <<"i", "v">> -> 4
          [] n = <<"v">> -> 5 [] n = <<"v", "i">> -> 6 [] n = <<"v", "i", "i">> -> 7
          [] OTHER -> 1

isMajorTriad(t) == ~Contains(t, <<"o">>) /\ \A i \in 1..Len(NumeralLetters(t)) :
                        NumeralLetters(t)[i] \in {"I", "V"}
isMinorTriad(t) == ~Contains(t, <<"o">>) /\ NumeralLetters(t) # <<>>
                   /\ \A i \in 1..Len(NumeralLetters(t)) : NumeralLetters(t)[i] \in {"i", "v"}

-----------------------------------------------------------------------------
(* Static functions *)

\* getLocalKey: [raised |-> TRUE] stands for the ValueError
getLocalKey(local_key, global_key) ==
    LET rt == (KeyTonic(global_key) + RomanDegree(local_key) - 1) % 7
    IN  IF isMajorTriad(local_key) THEN [raised |-> FALSE, key |-> <<UpperLetter(rt)>>]
        ELSE IF isMinorTriad(local_key) THEN [raised |-> FALSE, key |-> <<LowerLetter(rt)>>]
        ELSE [raised |-> TRUE, key |-> None]

roundValue == 2

RECURSIVE Pow10(_)
Pow10(n) == IF n = 0 THEN 1 ELSE 10 * Pow10(n - 1)

\* The digits of the fractional part of round(beat, roundValue), as str(float) prints
\* them: no trailing zero, but one digit at least
RECURSIVE FracDigits(_, _)
FracDigits(f, n) ==
    IF n = 0 THEN <<>>
    ELSE IF f % Pow10(n - 1) = 0 THEN <<DigitChar(f \div Pow10(n - 1))>>
    ELSE <<DigitChar(f \div Pow10(n - 1))>> \o FracDigits(f % Pow10(n - 1), n - 1)

\* str(intBeat(beat)) for a beat num/den
intBeat(beat) ==
    LET num == beat[1]
        den == beat[2]
        h == (2 * num * Pow10(roundValue) + den) \div (2 * den)
    IN  IF num % den = 0 THEN Str(num \div den)
        ELSE Str(h \div Pow10(roundValue)) \o <<".">>
             \o FracDigits(h % Pow10(roundValue), roundValue)

\* rnString(measureBeatStringList, inString)
rnString(measureBeatStringList, inString) ==
    LET start == IF inString = <<>> THEN <<"m">> \o Str(measureBeatStringList[1])
                 ELSE inString
    IN  start \o <<" ", "b">> \o intBeat(measureBeatStringList[2]) \o <<" ">>
              \o measureBeatStringList[3]

-----------------------------------------------------------------------------
(* RnAnalysis.getAnnotationsAndLocations and RnAnalysis.chfyChordAndLabel *)

FakeKey == <<"F", "A", "K", "E", " ", "K", "E", "Y">>

\* The positions of the notes of the score: beat 1 of every measure, and beat 1.5
\* of the first
Positions == {<<m, <<1, 1>> >> : m \in 1..MaxMeasure} \cup {<<1, <<3, 2>> >>}

\* Position order: by measure, then by beat
Before(p, q) == p[1] < q[1] \/ (p[1] = q[1] /\ p[2][1] * q[2][2] < q[2][1] * p[2][2])

\* The lyrics an analyst writes on a reduction: keys, tonicizations, a tonicization
\* of a diminished degree, a lone slash, a slash inside the text, a key with a colon
RawLyrics == { <<"G">>, <<"C">>, <<"/", "V">>, <<"/", "v", "i", "i", "o">>, <<"/">>,
               <<"G", "/", "V">>, <<"G", ":">> }

Pitches == {"Gmaj", "Dmaj"}

\* Chord sequences and annotated notes, both strictly increasing in position
ChordSeqs ==
    {c \in SeqsUpTo([measureNumber : 1..MaxMeasure, beat : {<<1, 1>>, <<3, 2>>},
                     pitches : Pitches], MaxChords) :
        /\ \A i \in 1..Len(c) : <<c[i].measureNumber, c[i].beat>> \in Positions
        /\ \A i \in 1..(Len(c) - 1) : Before(<<c[i].measureNumber, c[i].beat>>,
                                             <<c[i + 1].measureNumber, c[i + 1].beat>>)}

LyricSeqs ==
    {a \in SeqsUpTo(Positions \X RawLyrics, MaxAnnots) :
        \A i \in 1..(Len(a) - 1) : Before(a[i][1], a[i + 1][1])}

\* getAnnotationsAndLocations, for annotationTextClass 'Lyric': [measure, beat, txt]
getAnnotationsAndLocations(notes, adapt) ==
    [i \in 1..Len(notes) |->
        <<notes[i][1][1], notes[i][1][2],
          IF adapt THEN fixTextRn(notes[i][2]) ELSE notes[i][2]>>]

\* A bug: the tonicization is never reset between chords
ResetNever(remain, ton) == ton

\* if not tonicizationsRemainInEffect: currentTonicization = None
ResetForChord(remain, ton) == IF ~remain THEN None ELSE ton

\* A bug: the next annotation is consumed wherever it stands
AnnotationAlways(ch, keyData, idx) == Len(keyData) > idx

\* lenKeyData > currentIndex and [ch.measureNumber, ch.beat] == keyData[currentIndex][0:2]
AnnotationHere(ch, keyData, idx) ==
    /\ Len(keyData) > idx
    /\ ch.measureNumber = keyData[idx + 1][1]
    /\ ch.beat = keyData[idx + 1][2]

\* '/' in stringInQuestion
IsTonicization(s) == Contains(s, <<"/">>)

\* stringInQuestion[1:]
AfterSlash(s) == SubSeq(s, 2, Len(s))

\* A bug: a key change gets no prefix
MakeLyricNoPrefix(start, cur, ton, figure, inQuestion) ==
    IF ton # None THEN figure \o inQuestion ELSE figure

\* A bug: the prefix goes on the chords whose key did not change
MakeLyricInverted(start, cur, ton, figure, inQuestion) ==
    IF start = cur THEN cur \o <<":", " ">> \o figure
    ELSE IF ton # None THEN figure \o inQuestion
    ELSE figure

\* The lyric modifications
MakeLyric(start, cur, ton, figure, inQuestion) ==
    IF start # cur THEN cur \o <<":", " ">> \o figure
    ELSE IF ton # None THEN figure \o inQuestion
    ELSE figure

IdleChfy ==
    /\ chNotes = <<>> /\ lyrics = <<>> /\ adaptText = TRUE
    /\ tonicizationsRemainInEffect = FALSE
    /\ annotationsAndLocations = None /\ deducedAnalysis = None
    /\ chIndex = 0 /\ currentIndex = 0 /\ currentKey = FakeKey
    /\ currentTonicization = None /\ stringInQuestion = <<>> /\ startKey = FakeKey
    /\ consumedNow = FALSE /\ pc = "idle"
    /\ chfyScore = "unset" /\ writeOutcome = "no"

\* chfyChordAndLabel up to its loop
ChfyStart ==
    /\ pc = "init"
    /\ deducedAnalysis' = <<>>
    /\ chIndex' = 0
    /\ currentIndex' = 0
    /\ currentKey' = FakeKey
    /\ currentTonicization' = None
    /\ annotationsAndLocations' =
          IF annotationsAndLocations = <<>>
          THEN getAnnotationsAndLocations(lyrics, adaptText)
          ELSE annotationsAndLocations
    /\ pc' = "loop"
    /\ chfyScore' = "set"
    /\ UNCHANGED <<chNotes, lyrics, adaptText, tonicizationsRemainInEffect,
                   stringInQuestion, startKey, consumedNow, writeOutcome,
                   fixVars, prepVars>>

\* One iteration of 'for ch in chNotes'; the ValueError of getLocalKey leaves the
\* method there, with what self.deducedAnalysis holds by then
ChfyChord ==
    /\ pc = "loop"
    /\ chIndex < Len(chNotes)
    /\ LET ch == chNotes[chIndex + 1]
           keyData == annotationsAndLocations
           here == AnnotationHere(ch, keyData, currentIndex)
           inQuestion == IF here THEN keyData[currentIndex + 1][3] ELSE stringInQuestion
           ton0 == ResetForChord(tonicizationsRemainInEffect, currentTonicization)
           ton == IF ~here THEN ton0
                  ELSE IF IsTonicization(inQuestion) THEN AfterSlash(inQuestion)
                  ELSE None
           cur == IF here /\ ~IsTonicization(inQuestion) THEN inQuestion ELSE currentKey
           localKey == getLocalKey(ton, cur)
           figure == IF ton = None THEN romanNumeralFromChord(ch, cur)
                     ELSE romanNumeralFromChord(ch, localKey.key)
           lyric == MakeLyric(currentKey, cur, ton, figure, inQuestion)
       IN  /\ chIndex' = chIndex + 1
           /\ startKey' = currentKey
           /\ consumedNow' = here
           /\ currentIndex' = IF here THEN currentIndex + 1 ELSE currentIndex
           /\ stringInQuestion' = inQuestion
           /\ currentTonicization' = ton
           /\ currentKey' = cur
           /\ IF ton # None /\ localKey.raised
              THEN pc' = "ValueError" /\ UNCHANGED deducedAnalysis
              ELSE /\ pc' = "loop"
                   /\ deducedAnalysis' =
                         Append(deducedAnalysis, <<ch.measureNumber, ch.beat, lyric>>)
    /\ UNCHANGED <<chNotes, lyrics, adaptText, tonicizationsRemainInEffect,
                   annotationsAndLocations, chfyScore, writeOutcome, fixVars, prepVars>>

\* The loop is over and chfyChordAndLabel returns
ChfyReturn ==
    /\ pc = "loop"
    /\ chIndex = Len(chNotes)
    /\ pc' = "done"
    /\ UNCHANGED <<chNotes, lyrics, adaptText, tonicizationsRemainInEffect,
                   annotationsAndLocations, deducedAnalysis, chIndex, currentIndex,
                   currentKey, currentTonicization, stringInQuestion, startKey,
                   consumedNow, chfyScore, writeOutcome, fixVars, prepVars>>

-----------------------------------------------------------------------------
(* RnAnalysis.getRepeats and RnAnalysis.prepList *)

\* A Python dict is the sequence of its <<key, value>> items, in insertion order
Keys(d) == {d[i][1] : i \in 1..Len(d)}

DictGet(d, k) == d[CHOOSE i \in 1..Len(d) : d[i][1] = k][2]

\* A bug: an assignment to a key that is there already is dropped
DictKeepFirst(d, k, v) == IF k \in Keys(d) THEN d ELSE Append(d, <<k, v>>)

\* A bug: every assignment adds an item, a key that is there already included
DictAppend(d, k, v) == Append(d, <<k, v>>)

\* d[k] = v
DictSet(d, k, v) ==
    IF k \in Keys(d) THEN [i \in 1..Len(d) |-> IF d[i][1] = k THEN <<k, v>> ELSE d[i]]
    ELSE Append(d, <<k, v>>)

\* rangeComp[i][-1]
Last(l) == l[Len(l)]

\* simplified = [rangeComp[1][0], rangeComp[1][-1], rangeComp[0][0], rangeComp[0][-1]]
Simplify(rangeComp) ==
    <<rangeComp[2][1], Last(rangeComp[2]), rangeComp[1][1], Last(rangeComp[1])>>

\* The loop of getRepeats over simMGs, from the group at index i on
RECURSIVE StoreRanges(_, _, _)
StoreRanges(groups, i, d) ==
    IF i > Len(groups) THEN d
    ELSE StoreRanges(groups, i + 1,
                     DictSet(d, Simplify(groups[i])[1], Simplify(groups[i])))

getRepeats(groups) == StoreRanges(groups, 1, <<>>)

TimeSignatureLine(ts) ==
    <<"\n", "T", "i", "m", "e", " ", "S", "i", "g", "n", "a", "t", "u", "r", "e", ":", " ">>
    \o ts

\* The measure range equality of an entry of measureRangeEqualities
EqualityLine(entry) ==
    IF entry[1] = entry[2]
    THEN <<"m">> \o Str(entry[1]) \o <<" ", "=", " ", "m">> \o Str(entry[3])
    ELSE <<"m">> \o Str(entry[1]) \o <<"-">> \o Str(entry[2]) \o <<" ", "=", " ", "m">>
         \o Str(entry[3]) \o <<"-">> \o Str(entry[4])

TemplateLine(x) == <<"m">> \o Str(x) \o <<" ", "b", "1">>

\* A bug: the measure range equality goes before the time signature
LinesOfMeasureSwapped(x, template, tsDict, equalities, measureStrings) ==
    (IF x \in Keys(equalities) THEN <<EqualityLine(DictGet(equalities, x))>> ELSE <<>>)
    \o (IF x \in DOMAIN tsDict THEN <<TimeSignatureLine(tsDict[x])>> ELSE <<>>)
    \o (IF template THEN <<TemplateLine(x)>>
        ELSE IF x \in Keys(measureStrings) THEN <<DictGet(measureStrings, x)>>
        ELSE <<>>)

\* What one pass of the loop of prepList appends for measure x
LinesOfMeasure(x, template, tsDict, equalities, measureStrings) ==
    (IF x \in DOMAIN tsDict THEN <<TimeSignatureLine(tsDict[x])>> ELSE <<>>)
    \o (IF x \in Keys(equalities) THEN <<EqualityLine(DictGet(equalities, x))>> ELSE <<>>)
    \o (IF template THEN <<TemplateLine(x)>>
        ELSE IF x \in Keys(measureStrings) THEN <<DictGet(measureStrings, x)>>
        ELSE <<>>)

\* for x in range(self.firstMeasureNumber, self.lastMeasureNumber + 1)
RECURSIVE prepLoop(_, _, _, _, _, _)
prepLoop(x, last, template, tsDict, equalities, measureStrings) ==
    IF x > last THEN <<>>
    ELSE LinesOfMeasure(x, template, tsDict, equalities, measureStrings)
         \o prepLoop(x + 1, last, template, tsDict, equalities, measureStrings)

\* A run of n measures from s on
Run(s, n) == [i \in 1..n |-> s + i - 1]

\* The groups getSimilarMeasureGroups can return for measures first..last: a run of
\* measures and a later run of the same length
MeasureGroups(first, last) ==
    {<<Run(s, n), Run(t, n)>> : <<s, t, n>> \in
        {g \in (first..last) \X (first..last) \X (1..(last - first + 1)) :
            g[1] + g[3] <= g[2] /\ g[2] + g[3] - 1 <= last}}

Ratios == { <<"1", "2", "/", "8">> }

TimeSigDicts(first, last) ==
    UNION {[S -> Ratios] : S \in SUBSET (first..last)}

IdlePrep ==
    /\ firstMeasureNumber = 1 /\ lastMeasureNumber = 1
    /\ timeSigMeasureDict = <<>> /\ simMGs = <<>>
    /\ measureRangeEqualities = <<>> /\ combinedList = <<>>
    /\ lastOp = "idle"
    /\ analysisDict = <<>>

\* getRepeats(), called on its own
GetRepeats ==
    /\ lastOp = "none"
    /\ measureRangeEqualities' = getRepeats(simMGs)
    /\ lastOp' = "getRepeats"
    /\ UNCHANGED <<firstMeasureNumber, lastMeasureNumber, timeSigMeasureDict, simMGs,
                   combinedList, analysisDict, fixVars, chfyVars>>

\* prepList(template=True): getRepeats() runs inside it
PrepTemplate ==
    /\ lastOp \in {"none", "getRepeats"}
    /\ measureRangeEqualities' = getRepeats(simMGs)
    /\ combinedList' = prepLoop(firstMeasureNumber, lastMeasureNumber, TRUE,
                                timeSigMeasureDict, getRepeats(simMGs), <<>>)
    /\ lastOp' = "prepList"
    /\ UNCHANGED <<firstMeasureNumber, lastMeasureNumber, timeSigMeasureDict, simMGs,
                   analysisDict, fixVars, chfyVars>>

\* The loop of makeMeasureStrings over infoToUse, from the item at index i on, and
\* the save of the last string after it
RECURSIVE MeasureStrings(_, _, _, _, _)
MeasureStrings(infoToUse, i, currentMeasure, currentString, d) ==
    IF i > Len(infoToUse) THEN DictSet(d, currentMeasure, currentString)
    ELSE IF infoToUse[i][1] = currentMeasure
    THEN MeasureStrings(infoToUse, i + 1, infoToUse[i][1],
                        rnString(infoToUse[i], currentString), d)
    ELSE MeasureStrings(infoToUse, i + 1, infoToUse[i][1],
                        rnString(infoToUse[i], <<>>),
                        DictSet(d, currentMeasure, currentString))

\* makeMeasureStrings on a list that has a first item: firstMeasure = infoToUse[0][0]
makeMeasureStrings(infoToUse) ==
    MeasureStrings(infoToUse, 1, infoToUse[1][1], None, <<>>)

\* prepList(template=False): getRepeats() and makeMeasureStrings() run inside it;
\* infoToUse[0][0] raises IndexError on an empty list, after combinedList was reset
PrepAnalysis ==
    /\ lastOp = "none"
    /\ pc \in {"init", "done", "ValueError"}
    /\ LET annotations == IF deducedAnalysis = <<>> /\ annotationsAndLocations = <<>>
                          THEN getAnnotationsAndLocations(lyrics, adaptText)
                          ELSE annotationsAndLocations
           infoToUse == IF deducedAnalysis # <<>> THEN deducedAnalysis ELSE annotations
       IN  /\ measureRangeEqualities' = getRepeats(simMGs)
           /\ annotationsAndLocations' = annotations
           /\ IF infoToUse = <<>>
              THEN /\ lastOp' = "IndexError"
                   /\ combinedList' = <<>>
                   /\ UNCHANGED analysisDict
              ELSE /\ lastOp' = "prepAnalysis"
                   /\ analysisDict' = makeMeasureStrings(infoToUse)
                   /\ combinedList' = prepLoop(firstMeasureNumber, lastMeasureNumber, FALSE,
                                               timeSigMeasureDict, getRepeats(simMGs),
                                               makeMeasureStrings(infoToUse))
    /\ UNCHANGED <<firstMeasureNumber, lastMeasureNumber, timeSigMeasureDict, simMGs,
                   chNotes, lyrics, adaptText, tonicizationsRemainInEffect,
                   deducedAnalysis, chIndex, currentIndex, currentKey,
                   currentTonicization, stringInQuestion, startKey, consumedNow, pc,
                   chfyScore, writeOutcome, fixVars>>

\* writeScore(): 'if not self.chfyScore' reads an attribute that only
\* chfyChordAndLabel sets, so the call before it raises AttributeError; once set, the
\* chordified part holds the measures of the score and is truthy
WriteScore ==
    /\ writeOutcome = "no"
    /\ pc \in {"init", "done", "ValueError"}
    /\ writeOutcome' = IF chfyScore = "unset" THEN "AttributeError" ELSE "written"
    /\ UNCHANGED <<chNotes, lyrics, adaptText, tonicizationsRemainInEffect,
                   annotationsAndLocations, deducedAnalysis, chIndex, currentIndex,
                   currentKey, currentTonicization, stringInQuestion, startKey,
                   consumedNow, pc, chfyScore, fixVars, prepVars>>

\* The annotations of a score to serialise or to write: keys and tonicizations
OutputLyrics == { <<"G">>, <<"/", "V">> }

OutputLyricSeqs ==
    {a \in SeqsUpTo(Positions \X OutputLyrics, MaxAnnots) :
        \A i \in 1..(Len(a) - 1) : Before(a[i][1], a[i + 1][1])}

\* A constructed object to serialise or write, before or after the chord pass
InitOutput ==
    /\ chNotes \in {c \in ChordSeqs : Len(c) <= 1}
    /\ lyrics \in OutputLyricSeqs
    /\ adaptText \in BOOLEAN
    /\ tonicizationsRemainInEffect = FALSE
    /\ annotationsAndLocations = None
    /\ deducedAnalysis = None
    /\ chIndex = 0 /\ currentIndex = 0 /\ currentKey = FakeKey
    /\ currentTonicization = None /\ stringInQuestion = <<>> /\ startKey = FakeKey
    /\ consumedNow = FALSE
    /\ pc = "init"
    /\ chfyScore = "unset"
    /\ writeOutcome = "no"
    /\ firstMeasureNumber = 1
    /\ lastMeasureNumber \in MaxMeasure..MaxLast
    /\ timeSigMeasureDict \in TimeSigDicts(firstMeasureNumber, firstMeasureNumber)
    /\ simMGs \in SeqsUpTo(MeasureGroups(firstMeasureNumber, firstMeasureNumber + 1), 1)
    /\ measureRangeEqualities = <<>>
    /\ combinedList = <<>>
    /\ lastOp = "none"
    /\ analysisDict = <<>>
    /\ IdleFix

NextAnalysis == ChfyStart \/ ChfyChord \/ ChfyReturn \/ PrepAnalysis

NextScore == ChfyStart \/ ChfyChord \/ ChfyReturn \/ WriteScore

InitPrep ==
    /\ firstMeasureNumber \in {0, 1}
    /\ lastMeasureNumber \in firstMeasureNumber..MaxLast
    /\ timeSigMeasureDict \in TimeSigDicts(firstMeasureNumber, lastMeasureNumber)
    /\ simMGs \in SeqsUpTo(MeasureGroups(firstMeasureNumber, lastMeasureNumber), MaxGroups)
    /\ measureRangeEqualities = <<>>
    /\ combinedList = <<>>
    /\ lastOp = "none"
    /\ analysisDict = <<>>
    /\ IdleFix
    /\ IdleChfy

NextPrep == GetRepeats \/ PrepTemplate

InitChfy ==
    /\ chNotes \in ChordSeqs
    /\ lyrics \in LyricSeqs
    /\ adaptText \in BOOLEAN
    /\ tonicizationsRemainInEffect \in BOOLEAN
    /\ annotationsAndLocations = None
    /\ deducedAnalysis = None
    /\ chIndex = 0 /\ currentIndex = 0 /\ currentKey = FakeKey
    /\ currentTonicization = None /\ stringInQuestion = <<>> /\ startKey = FakeKey
    /\ consumedNow = FALSE
    /\ pc = "init"
    /\ chfyScore = "unset"
    /\ writeOutcome = "no"
    /\ IdleFix
    /\ IdlePrep

NextChfy == ChfyStart \/ ChfyChord \/ ChfyReturn

InitFix ==
    /\ textRn \in RawTexts
    /\ fixed = <<>>
    /\ fixCalls = 0
    /\ IdleChfy
    /\ IdlePrep

NextFix == FixRaw \/ FixAgain

-----------------------------------------------------------------------------
(* Specifications *)

\* fixTextRn, the chord pass and the template side, each on its own inputs
SpecFix  == InitFix /\ [][NextFix]_vars
SpecChfy == InitChfy /\ [][NextChfy]_vars
SpecPrep == InitPrep /\ [][NextPrep]_vars

\* The serialisation of an analysis and the writing of the score, around the chord pass
SpecAnalysis == InitOutput /\ [][NextAnalysis]_vars
SpecScore    == InitOutput /\ [][NextScore]_vars

Init == InitFix \/ InitChfy \/ InitPrep \/ InitOutput
Next == NextFix \/ NextChfy \/ NextPrep \/ PrepAnalysis \/ WriteScore
Spec == Init /\ [][Next]_vars

-----------------------------------------------------------------------------
(* fixTextRn: claims C1 and C2 *)

\* C1: canonicalization is idempotent: fixTextRn applied to its own result returns
\* that result unchanged (textRn is the argument of the second call, fixed its value).
C1_Idempotent == fixCalls = 2 => fixed = textRn

\* C2: the output of fixTextRn holds only allow-list characters (case-insensitively)
\* and spaces, every colon is followed by exactly one space, and a space stands
\* nowhere but right after a colon.
C2_OutputShape ==
    fixCalls >= 1 =>
        /\ \A i \in 1..Len(fixed) : Lower(fixed[i]) \in legalCharacters \/ fixed[i] = " "
        /\ \A i \in 1..Len(fixed) :
              fixed[i] = ":" => /\ i < Len(fixed)
                                /\ fixed[i + 1] = " "
                                /\ (i + 2 <= Len(fixed) => fixed[i + 2] # " ")
        /\ \A i \in 1..Len(fixed) : fixed[i] = " " => (i > 1 /\ fixed[i - 1] = ":")

\* A raw text with a space, a character that is not legal and a colon has been fixed
C2_Witness ==
    /\ fixCalls = 1
    /\ {" ", "x", ":"} \subseteq Range(textRn)
    /\ Contains(fixed, <<":", " ">>)

-----------------------------------------------------------------------------
(* chfyChordAndLabel: claims C3 to C7 *)

\* The chord the loop labelled last, and its entry of deducedAnalysis
LastChord == chNotes[chIndex]
LastData == deducedAnalysis[Len(deducedAnalysis)]

\* An iteration has just ended normally / has just ended, the ValueError included
Labelled == pc = "loop" /\ chIndex > 0
Evaluated == pc \in {"loop", "ValueError"} /\ chIndex > 0

\* The text of the annotation consumed last
LastConsumed == annotationsAndLocations[currentIndex][3]

BeatText(beat) == IF beat = <<1, 1>> THEN <<"1">> ELSE <<"1", ".", "5">>

\* The general half of C3: a chord that consumes a key annotation changing the key
\* to K is labelled K, ': ', its figure in K, and starts the line 'm<m> b<beat> <label>'
KeyChangeLabel ==
    (Labelled /\ consumedNow /\ ~IsTonicization(LastConsumed) /\ startKey # currentKey) =>
        /\ currentKey = LastConsumed
        /\ LastData = <<LastChord.measureNumber, LastChord.beat,
                        currentKey \o <<":", " ">>
                        \o romanNumeralFromChord(LastChord, currentKey)>>
        /\ rnString(LastData, <<>>) =
              <<"m">> \o Str(LastChord.measureNumber) \o <<" ", "b">>
              \o BeatText(LastChord.beat) \o <<" ">> \o LastData[3]

\* One annotation with the text lyric at measure 1 beat 1, and a chord there whose
\* figure in G major is I: the result is (1, 1, 'G: I') and the line 'm1 b1 G: I'
ExampleInG(lyric) ==
    ( /\ lyrics = << << <<1, <<1, 1>> >>, lyric >> >>
      /\ Len(chNotes) >= 1
      /\ chNotes[1].measureNumber = 1 /\ chNotes[1].beat = <<1, 1>>
      /\ romanNumeralFromChord(chNotes[1], <<"G">>) = <<"I">>
      /\ pc \in {"loop", "done"} /\ chIndex >= 1 ) =>
        /\ deducedAnalysis[1] = <<1, <<1, 1>>, <<"G", ":", " ", "I">> >>
        /\ rnString(deducedAnalysis[1], <<>>) =
              <<"m", "1", " ", "b", "1", " ", "G", ":", " ", "I">>

\* C3 as stated: the key change label, and the example with the annotation "G:".
C3_Original == KeyChangeLabel /\ ExampleInG(<<"G", ":">>)

\* C3 (amended): a chord that consumes an absolute-key annotation changing the key to
\* K is labelled K, ': ', its figure in K, and its line is 'm<measure> b<beat> <label>';
\* the annotation "G" (not "G:") at measure 1 beat 1 with a chord there whose figure
\* in G major is "I" yields (1, 1, "G: I") and the line "m1 b1 G: I".
C3_KeyChange == KeyChangeLabel /\ ExampleInG(<<"G">>)

\* The example of C3 has run: the first chord consumed "G" and established the key
C3_Witness ==
    /\ Len(lyrics) = 1
    /\ lyrics[1] = << <<1, <<1, 1>> >>, <<"G">> >>
    /\ Labelled /\ chIndex = 1 /\ consumedNow
    /\ LastChord.pitches = "Gmaj"
    /\ startKey = FakeKey /\ currentKey = <<"G">>

\* The text of the last key annotation among the first idx ones
RECURSIVE LastKeyText(_)
LastKeyText(idx) ==
    IF idx = 0 THEN FakeKey
    ELSE IF ~IsTonicization(annotationsAndLocations[idx][3])
         THEN annotationsAndLocations[idx][3]
         ELSE LastKeyText(idx - 1)

\* What C4 says of a chord that has been evaluated, but for when a tonicization is
\* in effect: the suffix, the clearing by a key annotation, the lasting key
TonicizationEffects ==
    Evaluated =>
        /\ (pc = "loop" /\ currentTonicization # None) =>
              LastData[3] =
                 romanNumeralFromChord(LastChord,
                                       getLocalKey(currentTonicization, currentKey).key)
                 \o LastConsumed
        /\ (pc = "loop" /\ currentTonicization = None) =>
              LastData[3] \in {romanNumeralFromChord(LastChord, currentKey),
                               currentKey \o <<":", " ">>
                               \o romanNumeralFromChord(LastChord, currentKey)}
        /\ (consumedNow /\ ~IsTonicization(LastConsumed)) => currentTonicization = None
        /\ currentKey = LastKeyText(currentIndex)

\* C4 as stated: a tonicization is in effect at a chord if and only if the annotation
\* consumed last is a tonicization, consumed at this chord or with the flag true.
C4_Original ==
    /\ TonicizationEffects
    /\ Evaluated =>
          ((currentTonicization # None) <=>
              /\ currentIndex > 0
              /\ IsTonicization(LastConsumed)
              /\ (consumedNow \/ tonicizationsRemainInEffect))

\* C4 (amended): when a chord is evaluated, a tonicization is in effect (and the label
\* carries the annotation as its suffix) if and only if the annotation consumed last
\* is a tonicization with a token after its first character, consumed at this very
\* chord or with tonicizationsRemainInEffect true; a key annotation always clears the
\* tonicization, and the key stays until the next key annotation.
C4_Lifetime ==
    /\ TonicizationEffects
    /\ Evaluated =>
          ((currentTonicization # None) <=>
              /\ currentIndex > 0
              /\ IsTonicization(LastConsumed)
              /\ AfterSlash(LastConsumed) # <<>>
              /\ (consumedNow \/ tonicizationsRemainInEffect))

\* A tonicization consumed at an earlier chord is still in effect at the second one
C4_Witness ==
    /\ Labelled /\ chIndex = 2 /\ ~consumedNow
    /\ tonicizationsRemainInEffect
    /\ currentTonicization = <<"V">>
    /\ currentKey = FakeKey

\* C5: a consumed annotation is a tonicization exactly when its text begins with '/',
\* its token being the rest; any other one is taken in full as the key, and clears
\* the tonicization.
C5_LeadingSlash ==
    (Evaluated /\ consumedNow) =>
        IF LastConsumed[1] = "/"
        THEN currentTonicization = Tail(LastConsumed) /\ currentKey = startKey
        ELSE currentKey = LastConsumed /\ currentTonicization = None

\* C6: with no annotation at all, every label is the bare figure of its chord, with
\* no key prefix and no tonicization suffix, and the ValueError is never raised.
C6_NoAnnotations ==
    lyrics = <<>> =>
        /\ pc # "ValueError"
        /\ pc \in {"loop", "done"} =>
              \A i \in 1..Len(deducedAnalysis) :
                  /\ deducedAnalysis[i][3] = romanNumeralFromChord(chNotes[i], FakeKey)
                  /\ ~Contains(deducedAnalysis[i][3], <<":">>)
                  /\ ~Contains(deducedAnalysis[i][3], <<"/">>)

\* A run without annotations has labelled two chords and returned
C6_Witness ==
    /\ lyrics = <<>>
    /\ pc = "done"
    /\ Len(chNotes) >= 2
    /\ Len(deducedAnalysis) = Len(chNotes)

\* C7: there is no partial success: a run returns with one result per chord, in
\* chord order and at the chord's position, or it ends in the ValueError with nothing
\* recorded in deducedAnalysis.
C7_NoPartialSuccess ==
    /\ pc = "done" =>
          /\ Len(deducedAnalysis) = Len(chNotes)
          /\ \A i \in 1..Len(chNotes) :
                /\ deducedAnalysis[i][1] = chNotes[i].measureNumber
                /\ deducedAnalysis[i][2] = chNotes[i].beat
    /\ pc = "ValueError" => deducedAnalysis = <<>>

-----------------------------------------------------------------------------
(* getRepeats and prepList: claims C8 to C10 *)

\* The ranges getRepeats has stored: [targetStart, targetEnd, sourceStart, sourceEnd]
StoredRanges == [i \in 1..Len(measureRangeEqualities) |-> measureRangeEqualities[i][2]]

\* C8: after getRepeats no two stored ranges have the same targetStart, and the
\* target and the source of every stored range are equally long.
C8_RangesKeyed ==
    lastOp # "none" =>
        /\ \A i, j \in 1..Len(StoredRanges) :
              i # j => StoredRanges[i][1] # StoredRanges[j][1]
        /\ \A i \in 1..Len(StoredRanges) :
              StoredRanges[i][2] - StoredRanges[i][1]
                 = StoredRanges[i][4] - StoredRanges[i][3]

\* getRepeats has run on two groups with the same first target measure, one of them
\* longer than a measure
C8_Witness ==
    /\ lastOp = "getRepeats"
    /\ Len(simMGs) = 2
    /\ simMGs[1][2][1] = simMGs[2][2][1]
    /\ Len(simMGs[1][2]) # Len(simMGs[2][2])
    /\ Len(StoredRanges) = 1

\* C9: the target extents [targetStart, targetEnd] of the stored ranges never
\* overlap each other.
C9_TargetsDisjoint ==
    lastOp # "none" =>
        \A i, j \in 1..Len(StoredRanges) :
            i # j => \/ StoredRanges[i][2] < StoredRanges[j][1]
                     \/ StoredRanges[j][2] < StoredRanges[i][1]

\* How many measures of first..m the set S holds
CountUpTo(S, m) == Cardinality(S \cap (firstMeasureNumber..m))

TargetStarts == {StoredRanges[i][1] : i \in 1..Len(StoredRanges)}

RangeAt(m) == StoredRanges[CHOOSE i \in 1..Len(StoredRanges) : StoredRanges[i][1] = m]

\* Where the line 'm<m> b1' stands in the template: after the lines of the measures
\* before it, and its own time signature and shorthand
LineIndex(m) ==
    (m - firstMeasureNumber + 1) + CountUpTo(DOMAIN timeSigMeasureDict, m)
    + CountUpTo(TargetStarts, m)

\* C10: the template holds, for every measure m from the first to the last in
\* ascending order, the line 'm<m> b1', right before it the repeat shorthand if m is
\* a targetStart, before that the time signature directive if m has one, and no
\* other line; a time signature at the first measure is the first line, and the
\* last line is 'm<last> b1'.
C10_Template ==
    lastOp = "prepList" =>
        /\ Len(combinedList) = LineIndex(lastMeasureNumber)
        /\ \A m \in firstMeasureNumber..lastMeasureNumber :
              /\ combinedList[LineIndex(m)] = <<"m">> \o Str(m) \o <<" ", "b", "1">>
              /\ m \in TargetStarts =>
                    combinedList[LineIndex(m) - 1] =
                       IF RangeAt(m)[1] = RangeAt(m)[2]
                       THEN <<"m">> \o Str(m) \o <<" ", "=", " ", "m">>
                            \o Str(RangeAt(m)[3])
                       ELSE <<"m">> \o Str(m) \o <<"-">> \o Str(RangeAt(m)[2])
                            \o <<" ", "=", " ", "m">> \o Str(RangeAt(m)[3])
                            \o <<"-">> \o Str(RangeAt(m)[4])
              /\ m \in DOMAIN timeSigMeasureDict =>
                    combinedList[LineIndex(m) - (IF m \in TargetStarts THEN 2 ELSE 1)] =
                       <<"\n", "T", "i", "m", "e", " ", "S", "i", "g", "n", "a", "t", "u",
                         "r", "e", ":", " ">> \o timeSigMeasureDict[m]
        /\ firstMeasureNumber \in DOMAIN timeSigMeasureDict =>
              combinedList[1] = <<"\n", "T", "i", "m", "e", " ", "S", "i", "g", "n", "a",
                                  "t", "u", "r", "e", ":", " ", "1", "2", "/", "8">>
        /\ combinedList[Len(combinedList)] =
              <<"m">> \o Str(lastMeasureNumber) \o <<" ", "b", "1">>

\* A template of several measures, with a time signature at the first measure and a
\* measure that has both a time signature and a repeat shorthand
C10_Witness ==
    /\ lastOp = "prepList"
    /\ lastMeasureNumber >= firstMeasureNumber + 2
    /\ firstMeasureNumber \in DOMAIN timeSigMeasureDict
    /\ \E m \in TargetStarts : m \in DOMAIN timeSigMeasureDict
    /\ \E i \in 1..Len(StoredRanges) : StoredRanges[i][1] # StoredRanges[i][2]

-----------------------------------------------------------------------------
(* Claims C13 to C15 *)

\* The allow-list as the documentation of fixTextRn gives it, the ten digits included
ReferenceAllowList == {"#", "b", "-", "+", "o", "ø", ":", "[", "]", "/",
                       "a", "c", "d", "e", "f", "g", "i", "v", "n",
                       "0", "1", "2", "3", "4", "5", "6", "7", "8", "9"}

\* The three steps: the substitutions in order, the deletion of the characters whose
\* lowercase form is not allowed, a space after every colon
ReferenceFix(s) ==
    LET swapped == StrReplace(StrReplace(StrReplace(StrReplace(s,
                       <<"/", "o">>, <<"ø">>), <<"°">>, <<"o">>), <<"(">>, <<"[">>),
                       <<")">>, <<"]">>)
        kept == SelectSeq(swapped, LAMBDA c : Lower(c) \in ReferenceAllowList)
    IN  StrReplace(kept, <<":">>, <<":", " ">>)

\* C13: fixTextRn equals the reference three-step algorithm, whose allow-list holds
\* all ten digits: no allow-listed character, no digit in particular, is removed.
C13_Reference == fixCalls >= 1 => fixed = ReferenceFix(textRn)

\* The groups of simMGs whose target starts at measure t, by index
CandidatesFor(t) == {i \in 1..Len(simMGs) : simMGs[i][2][1] = t}

FirstCandidate(t) == CHOOSE i \in CandidatesFor(t) : \A j \in CandidatesFor(t) : i <= j
LastCandidate(t) == CHOOSE i \in CandidatesFor(t) : \A j \in CandidatesFor(t) : i >= j

RangeOfGroup(g) == <<g[2][1], g[2][Len(g[2])], g[1][1], g[1][Len(g[1])]>>

StoredFor(t) == {i \in 1..Len(StoredRanges) : StoredRanges[i][1] = t}

ChordPos(ch) == <<ch.measureNumber, ch.beat>>
AnnotationPos(a) == <<a[1], a[2]>>

\* The annotation at the cursor stands where no remaining chord does
Stuck ==
    /\ pc = "loop"
    /\ currentIndex < Len(annotationsAndLocations)
    /\ \A j \in (chIndex + 1)..Len(chNotes) :
          ChordPos(chNotes[j]) # AnnotationPos(annotationsAndLocations[currentIndex + 1])

\* C15: the annotation cursor never decreases, moves by one at most per chord, and the
\* annotation it consumes is the one it stood on, at the position of the chord; once
\* the annotation at the cursor stands where no remaining chord does, no annotation
\* is consumed any more and every remaining chord is labelled with the state carried
\* forward.
C15_Cursor ==
    [][ /\ currentIndex' \in {currentIndex, currentIndex + 1}
        /\ (pc = "loop" /\ currentIndex' = currentIndex + 1) =>
              /\ chIndex' = chIndex + 1
              /\ consumedNow'
              /\ stringInQuestion' = annotationsAndLocations[currentIndex'][3]
              /\ AnnotationPos(annotationsAndLocations[currentIndex'])
                    = ChordPos(chNotes[chIndex'])
        /\ Stuck =>
              /\ currentIndex' = currentIndex
              /\ currentKey' = currentKey
              /\ pc' = "loop" => Stuck'
              /\ chIndex' = chIndex + 1 =>
                    /\ ~consumedNow'
                    /\ pc' = "loop"
                    /\ currentTonicization' =
                          (IF tonicizationsRemainInEffect THEN currentTonicization
                           ELSE None)
                    /\ deducedAnalysis'[Len(deducedAnalysis')][3] =
                          IF currentTonicization' = None
                          THEN romanNumeralFromChord(chNotes[chIndex'], currentKey)
                          ELSE romanNumeralFromChord(chNotes[chIndex'],
                                   getLocalKey(currentTonicization', currentKey).key)
                               \o stringInQuestion
      ]_vars

\* The first annotation stands between the two chords and was never consumed; the
\* second one stands at the second chord, which has been labelled without it
C15_Witness ==
    /\ pc = "loop" /\ chIndex = 2 /\ currentIndex = 0
    /\ Len(annotationsAndLocations) = 2
    /\ AnnotationPos(annotationsAndLocations[2]) = ChordPos(chNotes[2])
    /\ Len(deducedAnalysis) = 2

-----------------------------------------------------------------------------
(* Claims C11 and C12 *)

\* The entries of measure m, in order
EntriesOf(info, m) == SelectSeq(info, LAMBDA e : e[1] = m)

\* ' b<beat> <label>' for each entry, in order
RECURSIVE BeatsAndLabels(_)
BeatsAndLabels(entries) ==
    IF entries = <<>> THEN <<>>
    ELSE <<" ", "b">> \o BeatText(entries[1][2]) \o <<" ">> \o entries[1][3]
         \o BeatsAndLabels(Tail(entries))

MeasureLine(info, m) == <<"m">> \o Str(m) \o BeatsAndLabels(EntriesOf(info, m))

\* The measure lines of measure m in a list of lines: those that start 'm<m> b'
MeasureLinesOf(lines, m) ==
    SelectSeq(lines, LAMBDA l : StartsWith(l, <<"m">> \o Str(m) \o <<" ", "b">>))

\* The lines are those of the entries: one measure line for a measure with entries,
\* none for a measure without
AnalysisLines(info, lines) ==
    \A m \in firstMeasureNumber..lastMeasureNumber :
        MeasureLinesOf(lines, m) =
            IF EntriesOf(info, m) # <<>> THEN <<MeasureLine(info, m)>> ELSE <<>>

\* C11: prepList(template=False) completes for every position-ordered list of
\* (measure, beat, label) entries, the empty list included, and each measure of
\* [first, last] with an entry yields exactly one measure line, 'm<m>' followed by
\* ' b<beat> <label>' for each of its entries in order, a measure without an entry
\* yields none.
C11_Serialized ==
    [][ (lastOp = "none" /\ lastOp' # "none") =>
            /\ lastOp' = "prepAnalysis"
            /\ AnalysisLines(IF deducedAnalysis # <<>> THEN deducedAnalysis
                             ELSE annotationsAndLocations', combinedList')
      ]_vars

\* C12: writeScore may be called in any state after construction; it runs
\* chfyChordAndLabel first when that has not run, so the labelled chord part exists
\* whenever the score is written.
C12_WriteAnyState ==
    writeOutcome # "no" => (writeOutcome = "written" /\ chfyScore = "set")

=============================================================================
